---- MODULE Spec2Model ----
(***************************************************************************)
(* Model of package encode (encode.go): codec items bound to value cells,  *)
(* and the Encoding that sequences them.                                   *)
(*                                                                         *)
(* Representation of values:                                               *)
(*   byte, uint16, int        an integer                                   *)
(*   bool                     a BOOLEAN                                    *)
(*   uint32, uint64           the set of positions of the one-bits         *)
(*                            (bit 0 is the least significant); 2^56 is    *)
(*                            {56}, 2^64-1 is 0..63, 0 is {}               *)
(*   []byte, string           a sequence of bytes                          *)
(*   [16]byte, [32]byte       a sequence of 16 or of 32 bytes              *)
(* An index idx of a TLA+ sequence is the Go index idx-1.                  *)
(***************************************************************************)
EXTENDS Integers, Sequences, FiniteSets, TLC

\* ------------------------------------------------------------------------
\* Integer and bit primitives of the Go language and of math/bits
\* ------------------------------------------------------------------------

Max(S) == CHOOSE m \in S : \A q \in S : q <= m

\* Go's integer division truncates toward zero
GoDiv(a, b) == IF a >= 0 THEN a \div b ELSE -((-a) \div b)

Bit(v, j) == IF j \in v THEN 1 ELSE 0

\* byte(x): the low eight bits of an unsigned integer
ByteOf(v) ==
    Bit(v, 0) + 2 * Bit(v, 1) + 4 * Bit(v, 2) + 8 * Bit(v, 3)
  + 16 * Bit(v, 4) + 32 * Bit(v, 5) + 64 * Bit(v, 6) + 128 * Bit(v, 7)

\* uint64(b) for a byte b
BitsOfByte(b) == {j \in 0..7 : (b \div (2^j)) % 2 = 1}

\* uint64(n) for a small non-negative int n, and back
NatBits(n) == {j \in 0..30 : (n \div (2^j)) % 2 = 1}

RECURSIVE BitsNat(_)
BitsNat(v) == IF v = {} THEN 0 ELSE 2^Max(v) + BitsNat(v \ {Max(v)})

\* x >> n and x << n on uint64 (bits shifted past bit 63 are lost)
Shr(v, n) == {j - n : j \in {q \in v : q >= n}}
Shl64(v, n) == {j + n : j \in {q \in v : q + n <= 63}}

\* a < b on unsigned integers
ULess(a, b) == a # b /\ Max((a \ b) \cup (b \ a)) \in b

\* bits.Len64
Len64(v) == IF v = {} THEN 0 ELSE Max(v) + 1

\* bits.LeadingZeros8
LeadingZeros8(b) == 8 - Len64(BitsOfByte(b))

\* ^b on a byte
NotByte(b) == 255 - b

\* a | b on bytes
ByteOr(a, b) == ByteOf(BitsOfByte(a) \cup BitsOfByte(b))

\* b << uint(s) on a byte; uint(s) of a negative int is at least 2^63, and a
\* shift count of 8 or more shifts every bit out
ShlByte(b, s) == IF s < 0 \/ s >= 8 THEN 0 ELSE (b * (2^s)) % 256

\* a - b on bytes (wraps)
SubByte(a, b) == (a - b + 256) % 256

\* make([]byte, n)
Zeros(n) == [idx \in 1..n |-> 0]

\* copy(dst, src): min(len(dst), len(src)) bytes, returns dst
Copy(dst, src) ==
    [idx \in 1..Len(dst) |-> IF idx <= Len(src) THEN src[idx] ELSE dst[idx]]

\* buf[from:] where from <= len(buf)
SliceFrom(buf, from) == SubSeq(buf, from + 1, Len(buf))

\* buf with its part buf[off:off+len(part)] replaced by part
WriteAt(buf, off, part) ==
    [idx \in 1..Len(buf) |->
        IF idx > off /\ idx <= off + Len(part) THEN part[idx - off] ELSE buf[idx]]

\* ------------------------------------------------------------------------
\* encoding/binary
\* ------------------------------------------------------------------------

MaxVarintLen64 == 10

\* binary.BigEndian.PutUint16 / Uint16
PutUint16(buf, v) == WriteAt(buf, 0, <<v \div 256, v % 256>>)
Uint16(buf) == buf[1] * 256 + buf[2]

\* binary.BigEndian.PutUint32 / Uint32
PutUint32(buf, v) ==
    WriteAt(buf, 0, [j \in 1..4 |-> ByteOf(Shr(v, 8 * (4 - j)))])
Uint32(buf) == UNION {Shl64(BitsOfByte(buf[j]), 8 * (4 - j)) : j \in 1..4}

\* binary.BigEndian.PutUint64 / Uint64
PutUint64(buf, v) ==
    WriteAt(buf, 0, [j \in 1..8 |-> ByteOf(Shr(v, 8 * (8 - j)))])
Uint64(buf) == UNION {Shl64(BitsOfByte(buf[j]), 8 * (8 - j)) : j \in 1..8}

\* binary.PutUvarint: the buffer written and the number of bytes written
RECURSIVE PutUvarintLoop(_, _, _)
PutUvarintLoop(buf, x, i) ==
    IF Len64(x) > 7
    THEN PutUvarintLoop([buf EXCEPT ![i + 1] = ByteOr(ByteOf(x), 128)],
                        Shr(x, 7), i + 1)
    ELSE [buf |-> [buf EXCEPT ![i + 1] = ByteOf(x)], n |-> i + 1]

PutUvarint(buf, x) == PutUvarintLoop(buf, x, 0)

\* binary.Uvarint: the value and the number of bytes read (0: buffer too
\* small, negative: overflow)
RECURSIVE UvarintLoop(_, _, _, _)
UvarintLoop(buf, i, x, s) ==
    IF i >= Len(buf) THEN [x |-> {}, n |-> 0]
    ELSE IF i = MaxVarintLen64 THEN [x |-> {}, n |-> -(i + 1)]
    ELSE LET b == buf[i + 1] IN
         IF b < 128
         THEN IF i = MaxVarintLen64 - 1 /\ b > 1
              THEN [x |-> {}, n |-> -(i + 1)]
              ELSE [x |-> x \cup Shl64(BitsOfByte(b), s), n |-> i + 1]
         ELSE UvarintLoop(buf, i + 1, x \cup Shl64(BitsOfByte(b % 128), s), s + 7)

Uvarint(buf) == UvarintLoop(buf, 0, {}, 0)

uvarintSize(x) == PutUvarint(Zeros(MaxVarintLen64), x).n

\* ------------------------------------------------------------------------
\* Items.  Encode takes the bound value and the destination slice and gives
\* [panic, buf]; Decode takes the source slice and gives [err, v, buf], buf
\* being the source slice after the call; Size takes the bound value.
\* ------------------------------------------------------------------------

ErrUnexpectedEOF == "io.ErrUnexpectedEOF"
errOverflowVarint == "errOverflowVarint"
NoErr == "nil"

Wrote(buf) == [panic |-> FALSE, buf |-> buf]
Panicked(buf) == [panic |-> TRUE, buf |-> buf]
Fail(e, v, buf) == [err |-> e, v |-> v, buf |-> buf]
Ok(v, buf) == [err |-> NoErr, v |-> v, buf |-> buf]

\* padding
paddingEncode(v, buf) == Wrote(buf)
paddingSize(n) == n
paddingDecode(n, v, buf) ==
    IF Len(buf) < n THEN Fail(ErrUnexpectedEOF, v, buf) ELSE Ok(v, buf)

\* encByte
encByteEncode(v, buf) == Wrote([buf EXCEPT ![1] = v])
encByteSize(v) == 1
encByteDecode(v, buf) ==
    IF Len(buf) < 1 THEN Fail(ErrUnexpectedEOF, v, buf) ELSE Ok(buf[1], buf)

\* encBool
encBoolEncode(v, buf) == Wrote(IF v THEN [buf EXCEPT ![1] = 1] ELSE buf)
encBoolSize(v) == 1
encBoolDecode(v, buf) ==
    IF Len(buf) < 1 THEN Fail(ErrUnexpectedEOF, v, buf) ELSE Ok(buf[1] = 1, buf)

\* bigEndianUint16
bigEndianUint16Encode(v, buf) == Wrote(PutUint16(buf, v))
bigEndianUint16Size(v) == 2
bigEndianUint16Decode(v, buf) ==
    IF Len(buf) < 2 THEN Fail(ErrUnexpectedEOF, v, buf) ELSE Ok(Uint16(buf), buf)

\* bigEndianUint32
bigEndianUint32Encode(v, buf) == Wrote(PutUint32(buf, v))
bigEndianUint32Size(v) == 4
bigEndianUint32Decode(v, buf) ==
    IF Len(buf) < 4 THEN Fail(ErrUnexpectedEOF, v, buf) ELSE Ok(Uint32(buf), buf)

\* bigEndianUint64
bigEndianUint64Encode(v, buf) == Wrote(PutUint64(buf, v))
bigEndianUint64Size(v) == 8
bigEndianUint64Decode(v, buf) ==
    IF Len(buf) < 8 THEN Fail(ErrUnexpectedEOF, v, buf) ELSE Ok(Uint64(buf), buf)

\* uvarint32 (n > math.MaxUint32 is never true of a byte count)
uvarint32Encode(v, buf) == Wrote(PutUvarint(buf, v).buf)
uvarint32Size(v) == uvarintSize(v)
uvarint32Decode(v, buf) ==
    LET r == Uvarint(buf) IN
    IF r.n = 0 THEN Fail(ErrUnexpectedEOF, v, buf)
    ELSE IF r.n < 0 THEN Fail(errOverflowVarint, v, buf)
    ELSE Ok(r.x \cap (0..31), buf)

\* uvarint64
uvarint64Encode(v, buf) == Wrote(PutUvarint(buf, v).buf)
uvarint64Size(v) == uvarintSize(v)
uvarint64Decode(v, buf) ==
    LET r == Uvarint(buf) IN
    IF r.n = 0 THEN Fail(ErrUnexpectedEOF, v, buf)
    ELSE IF r.n < 0 THEN Fail(errOverflowVarint, v, buf)
    ELSE Ok(r.x, buf)

\* ordUvarint64
EscapeBits == 56

\* the nBytes local of ordUvarint64.Encode on its non-escape path
ordNBytes(v) == GoDiv(Len64(v) + 6, 7)

\* as ordEncodeLoop, the bytes of v taken low-order first
RECURSIVE ordEncodeLoopLittleEndian(_, _, _, _)
ordEncodeLoopLittleEndian(buf, v, nBytes, i) ==
    IF i >= nBytes THEN buf
    ELSE ordEncodeLoopLittleEndian(
           [buf EXCEPT ![i + 1] = ByteOr(buf[i + 1], ByteOf(Shr(v, i * 8)))],
           v, nBytes, i + 1)

RECURSIVE ordEncodeLoop(_, _, _, _)
ordEncodeLoop(buf, v, nBytes, i) ==
    IF i >= nBytes THEN buf
    ELSE ordEncodeLoop(
           [buf EXCEPT ![i + 1] = ByteOr(buf[i + 1], ByteOf(Shr(v, (nBytes - i - 1) * 8)))],
           v, nBytes, i + 1)

ordUvarint64Encode(v, buf) ==
    IF Len64(v) > EscapeBits
    THEN Wrote(<<255>> \o PutUint64(SliceFrom(buf, 1), v))
    ELSE LET nBytes == ordNBytes(v)
             nLeadingOnes == nBytes - 1
             first == ShlByte(SubByte(ShlByte(1, nLeadingOnes), 1), 8 - nLeadingOnes)
         IN Wrote(ordEncodeLoop([buf EXCEPT ![1] = first], v, nBytes, 0))

\* as ordUvarint64Size, dividing l instead of l-1
ordUvarint64SizeOffByOne(v) ==
    IF Len64(v) > EscapeBits THEN 9 ELSE 1 + GoDiv(Len64(v), 7)

ordUvarint64Size(v) ==
    IF Len64(v) > EscapeBits THEN 9 ELSE 1 + GoDiv(Len64(v) - 1, 7)

RECURSIVE ordDecodeLoop(_, _, _, _, _)
ordDecodeLoop(buf, result, nBytes, rBytes, i) ==
    IF i >= nBytes THEN result
    ELSE ordDecodeLoop(buf,
           result \cup Shl64(BitsOfByte(buf[i + 1]), (rBytes * 8) - (i * 8) - 8),
           nBytes, rBytes, i + 1)

\* as ordUvarint64Decode, without the final mask
ordUvarint64DecodeNoMask(v, buf) ==
    IF Len(buf) < 1 THEN Fail(ErrUnexpectedEOF, v, buf)
    ELSE LET nLeadingOnes == LeadingZeros8(NotByte(buf[1]))
             nBytes == nLeadingOnes + 1
             rBits == nBytes * 7
             rBytes == GoDiv(rBits + 8, 8)
         IN IF rBits = 63
            THEN IF Len(buf) < 9 THEN Fail(ErrUnexpectedEOF, v, buf)
                 ELSE Ok(Uint64(SliceFrom(buf, 1)), buf)
            ELSE IF Len(buf) < nBytes THEN Fail(ErrUnexpectedEOF, v, buf)
            ELSE Ok(ordDecodeLoop(buf, {}, nBytes, rBytes, 0), buf)

\* as ordUvarint64Decode, a short buffer answered with nil
ordUvarint64DecodeShortIsNil(v, buf) ==
    IF Len(buf) < 1 THEN Fail(ErrUnexpectedEOF, v, buf)
    ELSE LET nLeadingOnes == LeadingZeros8(NotByte(buf[1]))
             nBytes == nLeadingOnes + 1
             rBits == nBytes * 7
             rBytes == GoDiv(rBits + 8, 8)
         IN IF rBits = 63
            THEN IF Len(buf) < 9 THEN Ok(v, buf)
                 ELSE Ok(Uint64(SliceFrom(buf, 1)), buf)
            ELSE IF Len(buf) < nBytes THEN Ok(v, buf)
            ELSE Ok(ordDecodeLoop(buf, {}, nBytes, rBytes, 0) \cap (0..(rBits - 1)), buf)

ordUvarint64Decode(v, buf) ==
    IF Len(buf) < 1 THEN Fail(ErrUnexpectedEOF, v, buf)
    ELSE LET nLeadingOnes == LeadingZeros8(NotByte(buf[1]))
             nBytes == nLeadingOnes + 1
             rBits == nBytes * 7
             rBytes == GoDiv(rBits + 8, 8)
         IN IF rBits = 63
            THEN IF Len(buf) < 9 THEN Fail(ErrUnexpectedEOF, v, buf)
                 ELSE Ok(Uint64(SliceFrom(buf, 1)), buf)
            ELSE IF Len(buf) < nBytes THEN Fail(ErrUnexpectedEOF, v, buf)
            ELSE Ok(ordDecodeLoop(buf, {}, nBytes, rBytes, 0) \cap (0..(rBits - 1)), buf)

\* lengthDelimBytes
lengthDelimBytesEncode(v, buf) ==
    LET p == PutUvarint(buf, NatBits(Len(v))) IN
    IF p.n > Len(v) THEN Panicked(p.buf)
    ELSE Wrote(Copy(p.buf, SliceFrom(v, p.n)))
lengthDelimBytesSize(v) == uvarintSize(NatBits(Len(v))) + Len(v)
lengthDelimBytesDecode(v, buf) ==
    LET r == Uvarint(buf) IN
    IF r.n = 0 THEN Fail(ErrUnexpectedEOF, v, buf)
    ELSE IF r.n < 0 THEN Fail(errOverflowVarint, v, buf)
    ELSE IF ULess(NatBits(Len(buf) - r.n), r.x) THEN Fail(ErrUnexpectedEOF, v, buf)
    ELSE LET made == Zeros(BitsNat(r.x)) IN
         Ok(made, WriteAt(buf, r.n, made))

\* lengthDelimString
lengthDelimStringEncode(v, buf) ==
    LET p == PutUvarint(buf, NatBits(Len(v))) IN
    IF p.n > Len(v) THEN Panicked(p.buf)
    ELSE Wrote(Copy(p.buf, SliceFrom(v, p.n)))
lengthDelimStringSize(v) == uvarintSize(NatBits(Len(v))) + Len(v)
lengthDelimStringDecode(v, buf) ==
    LET r == Uvarint(buf) IN
    IF r.n = 0 THEN Fail(ErrUnexpectedEOF, v, buf)
    ELSE IF r.n < 0 THEN Fail(errOverflowVarint, v, buf)
    ELSE IF ULess(NatBits(Len(buf) - r.n), r.x) THEN Fail(ErrUnexpectedEOF, v, buf)
    ELSE Ok(SliceFrom(buf, r.n), buf)

\* bytes16
bytes16Encode(v, buf) == Wrote(Copy(buf, v))
bytes16Size(v) == 16
bytes16Decode(v, buf) ==
    IF Len(buf) < 16 THEN Fail(ErrUnexpectedEOF, v, buf)
    ELSE Ok(Copy(v, SubSeq(buf, 1, 16)), buf)

\* bytes32
bytes32Encode(v, buf) == Wrote(Copy(buf, v))
bytes32Size(v) == 32
bytes32Decode(v, buf) ==
    IF Len(buf) < 32 THEN Fail(ErrUnexpectedEOF, v, buf)
    ELSE Ok(Copy(v, SubSeq(buf, 1, 32)), buf)

\* ------------------------------------------------------------------------
\* The Item interface: an item is [kind, n], n being the width of a Padding
\* ------------------------------------------------------------------------

Padding(n) == [kind |-> "Padding", n |-> n]
Byte == [kind |-> "Byte", n |-> 0]
Bool == [kind |-> "Bool", n |-> 0]
BigEndianUint16 == [kind |-> "BigEndianUint16", n |-> 0]
BigEndianUint32 == [kind |-> "BigEndianUint32", n |-> 0]
BigEndianUint64 == [kind |-> "BigEndianUint64", n |-> 0]
Uvarint32 == [kind |-> "Uvarint32", n |-> 0]
Uvarint64 == [kind |-> "Uvarint64", n |-> 0]
OrdUvarint64 == [kind |-> "OrdUvarint64", n |-> 0]
LengthDelimBytes == [kind |-> "LengthDelimBytes", n |-> 0]
LengthDelimString == [kind |-> "LengthDelimString", n |-> 0]
Bytes16 == [kind |-> "Bytes16", n |-> 0]
Bytes32 == [kind |-> "Bytes32", n |-> 0]

ItemSize(it, v) ==
    CASE it.kind = "Padding" -> paddingSize(it.n)
      [] it.kind = "Byte" -> encByteSize(v)
      [] it.kind = "Bool" -> encBoolSize(v)
      [] it.kind = "BigEndianUint16" -> bigEndianUint16Size(v)
      [] it.kind = "BigEndianUint32" -> bigEndianUint32Size(v)
      [] it.kind = "BigEndianUint64" -> bigEndianUint64Size(v)
      [] it.kind = "Uvarint32" -> uvarint32Size(v)
      [] it.kind = "Uvarint64" -> uvarint64Size(v)
      [] it.kind = "OrdUvarint64" -> ordUvarint64Size(v)
      [] it.kind = "LengthDelimBytes" -> lengthDelimBytesSize(v)
      [] it.kind = "LengthDelimString" -> lengthDelimStringSize(v)
      [] it.kind = "Bytes16" -> bytes16Size(v)
      [] it.kind = "Bytes32" -> bytes32Size(v)

ItemEncode(it, v, buf) ==
    CASE it.kind = "Padding" -> paddingEncode(v, buf)
      [] it.kind = "Byte" -> encByteEncode(v, buf)
      [] it.kind = "Bool" -> encBoolEncode(v, buf)
      [] it.kind = "BigEndianUint16" -> bigEndianUint16Encode(v, buf)
      [] it.kind = "BigEndianUint32" -> bigEndianUint32Encode(v, buf)
      [] it.kind = "BigEndianUint64" -> bigEndianUint64Encode(v, buf)
      [] it.kind = "Uvarint32" -> uvarint32Encode(v, buf)
      [] it.kind = "Uvarint64" -> uvarint64Encode(v, buf)
      [] it.kind = "OrdUvarint64" -> ordUvarint64Encode(v, buf)
      [] it.kind = "LengthDelimBytes" -> lengthDelimBytesEncode(v, buf)
      [] it.kind = "LengthDelimString" -> lengthDelimStringEncode(v, buf)
      [] it.kind = "Bytes16" -> bytes16Encode(v, buf)
      [] it.kind = "Bytes32" -> bytes32Encode(v, buf)

ItemDecode(it, v, buf) ==
    CASE it.kind = "Padding" -> paddingDecode(it.n, v, buf)
      [] it.kind = "Byte" -> encByteDecode(v, buf)
      [] it.kind = "Bool" -> encBoolDecode(v, buf)
      [] it.kind = "BigEndianUint16" -> bigEndianUint16Decode(v, buf)
      [] it.kind = "BigEndianUint32" -> bigEndianUint32Decode(v, buf)
      [] it.kind = "BigEndianUint64" -> bigEndianUint64Decode(v, buf)
      [] it.kind = "Uvarint32" -> uvarint32Decode(v, buf)
      [] it.kind = "Uvarint64" -> uvarint64Decode(v, buf)
      [] it.kind = "OrdUvarint64" -> ordUvarint64Decode(v, buf)
      [] it.kind = "LengthDelimBytes" -> lengthDelimBytesDecode(v, buf)
      [] it.kind = "LengthDelimString" -> lengthDelimStringDecode(v, buf)
      [] it.kind = "Bytes16" -> bytes16Decode(v, buf)
      [] it.kind = "Bytes32" -> bytes32Decode(v, buf)

\* ------------------------------------------------------------------------
\* Encoding.Encode
\* ------------------------------------------------------------------------

RECURSIVE TotalSize(_, _, _)
TotalSize(its, vals, j) ==
    IF j > Len(its) THEN 0
    ELSE ItemSize(its[j], vals[j]) + TotalSize(its, vals, j + 1)

\* the second loop of Encoding.Encode, from item j at offset off
RECURSIVE EncodeLoop(_, _, _, _, _)
EncodeLoop(its, vals, buf, off, j) ==
    IF j > Len(its) THEN Wrote(buf)
    ELSE LET size == ItemSize(its[j], vals[j])
             r == ItemEncode(its[j], vals[j], SubSeq(buf, off + 1, off + size))
         IN IF r.panic THEN Panicked(WriteAt(buf, off, r.buf))
            ELSE EncodeLoop(its, vals, WriteAt(buf, off, r.buf), off + size, j + 1)

EncodingEncode(its, vals) ==
    EncodeLoop(its, vals, Zeros(TotalSize(its, vals, 1)), 0, 1)

\* ------------------------------------------------------------------------
\* Inputs
\* ------------------------------------------------------------------------

Spread == 1
MaxStrLen == 2
MaxBufLen == 2

\* the exponents e at which the size of an OrdUvarint64 changes (2^7 .. 2^56),
\* and 2^63
Boundaries == {7, 14, 21, 28, 35, 42, 49, 56, 63}

\* 0 + m, 2^e + m, 2^e - 1 - m and 2^64 - 1 - m for m in 0..Spread
OrdInputs ==
    {NatBits(m) : m \in 0..Spread}
    \cup {{e} \cup NatBits(m) : e \in Boundaries, m \in 0..Spread}
    \cup {(0..(e - 1)) \ NatBits(m) : e \in Boundaries \cup {64}, m \in 0..Spread}

StrAlphabet == {97, 98}
ByteAlphabet == {0, 1, 128, 255}
DirtyBytes == {1, 255}

RECURSIVE SeqsUpTo(_, _)
SeqsUpTo(S, n) ==
    IF n = 0 THEN {<<>>}
    ELSE LET shorter == SeqsUpTo(S, n - 1) IN
         shorter \cup {Append(q, b) : q \in {r \in shorter : Len(r) = n - 1}, b \in S}

\* a one-byte length prefix followed by 127 or 128 further bytes
LongBufs == {<<1>> \o [j \in 1..n |-> 97] : n \in {127, 128}}

ArbBufs == SeqsUpTo(ByteAlphabet, MaxBufLen) \cup LongBufs

Prefixes(b) == {SubSeq(b, 1, n) : n \in 0..Len(b)}

Kinds == {Padding(1), Byte, Bool, BigEndianUint16, BigEndianUint32,
          BigEndianUint64, Uvarint32, Uvarint64, OrdUvarint64, LengthDelimBytes,
          LengthDelimString, Bytes16, Bytes32}

\* the Encoding of the package documentation
DocExample == <<BigEndianUint16, LengthDelimString, Bool>>

Layouts ==
    {<<a>> : a \in Kinds} \cup {<<a, b>> : a \in Kinds, b \in Kinds}
    \cup {DocExample, <<Bool, Uvarint64, Byte>>, <<OrdUvarint64, LengthDelimBytes, Padding(1)>>}

Values(it) ==
    CASE it.kind = "Padding" -> {0}
      [] it.kind = "Byte" -> {7, 255}
      [] it.kind = "Bool" -> BOOLEAN
      [] it.kind = "BigEndianUint16" -> {258, 65535}
      [] it.kind = "BigEndianUint32" -> {NatBits(258), 0..31}
      [] it.kind = "BigEndianUint64" -> {NatBits(258), 0..63}
      [] it.kind = "Uvarint32" -> {NatBits(5), NatBits(300)}
      [] it.kind = "Uvarint64" -> {NatBits(5), {63}}
      [] it.kind = "OrdUvarint64" -> {NatBits(5), NatBits(300), {56}}
      [] it.kind = "LengthDelimBytes" -> SeqsUpTo(StrAlphabet, MaxStrLen)
      [] it.kind = "LengthDelimString" -> SeqsUpTo(StrAlphabet, MaxStrLen)
      [] it.kind = "Bytes16" -> {[j \in 1..16 |-> j - 1], [j \in 1..16 |-> 255]}
      [] it.kind = "Bytes32" -> {[j \in 1..32 |-> j - 1], [j \in 1..32 |-> 255]}

RECURSIVE CellInputs(_, _)
CellInputs(its, j) ==
    IF j > Len(its) THEN {<<>>}
    ELSE {<<v>> \o rest : v \in Values(its[j]), rest \in CellInputs(its, j + 1)}

\* what a caller may store in a cell between the two calls
ZeroValue(it) ==
    CASE it.kind \in {"Padding", "Byte", "BigEndianUint16"} -> 0
      [] it.kind = "Bool" -> FALSE
      [] it.kind \in {"BigEndianUint32", "BigEndianUint64", "Uvarint32", "Uvarint64",
                      "OrdUvarint64"} -> {}
      [] it.kind \in {"LengthDelimBytes", "LengthDelimString"} -> <<>>
      [] it.kind = "Bytes16" -> Zeros(16)
      [] it.kind = "Bytes32" -> Zeros(32)

Flip(it, v) ==
    CASE it.kind = "Padding" -> v
      [] it.kind = "Byte" -> 255 - v
      [] it.kind = "BigEndianUint16" -> 65535 - v
      [] it.kind = "Bool" -> ~v
      [] it.kind \in {"BigEndianUint32", "Uvarint32"} -> (0..31) \ v
      [] it.kind \in {"BigEndianUint64", "Uvarint64", "OrdUvarint64"} -> (0..63) \ v
      [] it.kind \in {"LengthDelimBytes", "LengthDelimString"} -> Append(v, 255)
      [] it.kind \in {"Bytes16", "Bytes32"} -> [j \in 1..Len(v) |-> 255 - v[j]]

\* ------------------------------------------------------------------------
\* State
\* ------------------------------------------------------------------------

VARIABLES
    items,      \* Encoding.items
    cells,      \* the value cells the items are bound to
    pc,         \* "idle", "encoded", "decoding", "returned" or "panic"
    out,        \* the buffer the last Encode wrote
    backing,    \* that buffer before the items wrote into it
    encoded,    \* the cells when Encode was called
    given,      \* the buffer Decode was called with
    dbuf,       \* Decode's buf
    i,          \* Decode's offset i
    k,          \* the index of the item Decode is at (0: Decode not called)
    err,        \* the error Decode returned
    before,     \* the cells when Decode was called
    calls       \* the Item.Decode calls Decode made: offset, error, value

vars == <<items, cells, pc, out, backing, encoded, given, dbuf, i, k, err, before, calls>>

Fresh ==
    /\ pc = "idle"
    /\ out = <<>> /\ backing = <<>> /\ encoded = <<>>
    /\ given = <<>> /\ dbuf = <<>> /\ i = 0 /\ k = 0 /\ err = "-"
    /\ before = <<>> /\ calls = <<>>

\* New(items...) over cells holding input values
Init ==
    /\ \E its \in Layouts : items = its /\ cells \in CellInputs(its, 1)
    /\ Fresh

\* New(OrdUvarint64(&x)), and the two encodings of checkOrdering side by side
InitOrd ==
    /\ \/ items = <<OrdUvarint64>> /\ cells \in {<<x>> : x \in OrdInputs}
       \/ /\ items = <<OrdUvarint64, OrdUvarint64>>
          /\ cells \in {p \in OrdInputs \X OrdInputs : ULess(p[1], p[2])}
    /\ Fresh

\* ------------------------------------------------------------------------
\* Operations
\* ------------------------------------------------------------------------

\* enc.Encode()
Encode ==
    /\ pc = "idle"
    /\ LET r == EncodingEncode(items, cells) IN
         /\ out' = IF r.panic THEN <<>> ELSE r.buf
         /\ backing' = Zeros(Len(r.buf))
         /\ pc' = IF r.panic THEN "panic" ELSE "encoded"
    /\ encoded' = cells
    /\ UNCHANGED <<items, cells, given, dbuf, i, k, err, before, calls>>

\* item.Encode(backing[:item.Size()]) on a buffer the caller reuses
ItemEncodeInto(f) ==
    /\ pc = "idle"
    /\ Len(items) = 1
    /\ LET b == [idx \in 1..ItemSize(items[1], cells[1]) |-> f]
           r == ItemEncode(items[1], cells[1], b)
       IN /\ out' = r.buf
          /\ backing' = b
          /\ pc' = IF r.panic THEN "panic" ELSE "encoded"
    /\ encoded' = cells
    /\ UNCHANGED <<items, cells, given, dbuf, i, k, err, before, calls>>

\* the caller stores other values in the cells (x = ^x), once
Overwrite(mode) ==
    /\ pc = "encoded"
    /\ cells = encoded
    /\ cells' = [j \in 1..Len(items) |->
                    IF mode = "flip" THEN Flip(items[j], cells[j])
                    ELSE ZeroValue(items[j])]
    /\ UNCHANGED <<items, pc, out, backing, encoded, given, dbuf, i, k, err, before, calls>>

\* the buffers Decode is called with: arbitrary bytes on a new Encoding, a
\* prefix of Encode's output after Encode
DecodeInputs == IF pc = "idle" THEN ArbBufs ELSE Prefixes(out)

\* enc.Decode(b), up to the loop
DecodeCall(b) ==
    /\ pc \in {"idle", "encoded"}
    /\ given' = b /\ dbuf' = b
    /\ i' = 0 /\ k' = 1
    /\ before' = cells
    /\ calls' = <<>>
    /\ pc' = "decoding"
    /\ UNCHANGED <<items, cells, out, backing, encoded, err>>

\* as DecodeStep, an item's error kept until the loop ends
DecodeStepKeepsGoing ==
    /\ pc = "decoding"
    /\ IF i > Len(dbuf)
       THEN /\ pc' = "panic"
            /\ UNCHANGED <<cells, dbuf, i, k, err, calls>>
       ELSE LET r == ItemDecode(items[k], cells[k], SliceFrom(dbuf, i))
                e == IF r.err # NoErr THEN r.err ELSE IF err = "-" THEN NoErr ELSE err
            IN
            /\ calls' = Append(calls, [off |-> i, err |-> r.err, v |-> r.v])
            /\ IF r.err # NoErr
               THEN UNCHANGED <<cells, dbuf, i>>
               ELSE /\ cells' = [cells EXCEPT ![k] = r.v]
                    /\ dbuf' = WriteAt(dbuf, i, r.buf)
                    /\ i' = i + ItemSize(items[k], r.v)
            /\ IF k = Len(items)
               THEN err' = e /\ pc' = "returned" /\ k' = k
               ELSE err' = (IF r.err # NoErr THEN r.err ELSE err) /\ pc' = "decoding" /\ k' = k + 1
    /\ UNCHANGED <<items, out, backing, encoded, given, before>>

\* one iteration of Decode's loop; the return after the last item
DecodeStep ==
    /\ pc = "decoding"
    /\ IF i > Len(dbuf)
       THEN /\ pc' = "panic"
            /\ UNCHANGED <<cells, dbuf, i, k, err, calls>>
       ELSE LET r == ItemDecode(items[k], cells[k], SliceFrom(dbuf, i)) IN
            /\ calls' = Append(calls, [off |-> i, err |-> r.err, v |-> r.v])
            /\ IF r.err # NoErr
               THEN /\ err' = r.err
                    /\ pc' = "returned"
                    /\ UNCHANGED <<cells, dbuf, i, k>>
               ELSE /\ cells' = [cells EXCEPT ![k] = r.v]
                    /\ dbuf' = WriteAt(dbuf, i, r.buf)
                    /\ i' = i + ItemSize(items[k], r.v)
                    /\ IF k = Len(items)
                       THEN err' = NoErr /\ pc' = "returned" /\ k' = k
                       ELSE err' = err /\ pc' = "decoding" /\ k' = k + 1
    /\ UNCHANGED <<items, out, backing, encoded, given, before>>

Next ==
    \/ Encode
    \/ \E f \in DirtyBytes : ItemEncodeInto(f)
    \/ \E mode \in {"flip", "zero"} : Overwrite(mode)
    \/ \E b \in DecodeInputs : DecodeCall(b)
    \/ DecodeStep

Spec == Init /\ [][Next]_vars
SpecOrd == InitOrd /\ [][Next]_vars

\* ------------------------------------------------------------------------
\* Properties
\* ------------------------------------------------------------------------

\* Encode was called, on a zeroed buffer (as Encoding.Encode makes it)
EncodedFresh == encoded # <<>> /\ backing = Zeros(Len(backing))

\* bytes.Compare(a, b) < 0
BytesLess(a, b) ==
    \E p \in 0..Len(a) :
        /\ p <= Len(b)
        /\ \A j \in 1..p : a[j] = b[j]
        /\ \/ p = Len(a) /\ p < Len(b)
           \/ p < Len(a) /\ p < Len(b) /\ a[p + 1] < b[p + 1]

\* the size table of the OrdUvarint64 documentation
TableSize(x) ==
    IF ULess(x, {7}) THEN 1
    ELSE IF ULess(x, {14}) THEN 2
    ELSE IF ULess(x, {21}) THEN 3
    ELSE IF ULess(x, {28}) THEN 4
    ELSE IF ULess(x, {35}) THEN 5
    ELSE IF ULess(x, {42}) THEN 6
    ELSE IF ULess(x, {49}) THEN 7
    ELSE IF ULess(x, {56}) THEN 8
    ELSE 9

\* the number of bytes a successful Decode of a variable-length item parsed
Parsed(it, buf) ==
    CASE it.kind = "OrdUvarint64" -> LeadingZeros8(NotByte(buf[1])) + 1
      [] it.kind \in {"Uvarint32", "Uvarint64"} -> Uvarint(buf).n
      [] it.kind \in {"LengthDelimBytes", "LengthDelimString"} ->
            Uvarint(buf).n + BitsNat(Uvarint(buf).x)

VariableLength ==
    {"OrdUvarint64", "Uvarint32", "Uvarint64", "LengthDelimBytes", "LengthDelimString"}

\* C1: OrdUvarint64 round-trips: when Decode has returned on the whole output
\* of Encode over the single item OrdUvarint64(&x), whatever the cell was
\* overwritten with in between, the error is nil and the cell holds x again.
OrdRoundTrip ==
    (pc = "returned" /\ items = <<OrdUvarint64>> /\ EncodedFresh /\ given = out)
        => (err = NoErr /\ cells = encoded)

\* a nine-byte encoding decoded back into an overwritten cell
OrdRoundTripWitness ==
    /\ pc = "returned" /\ items = <<OrdUvarint64>> /\ EncodedFresh /\ given = out
    /\ Len(out) = 9 /\ before # encoded /\ cells = encoded

\* C2: OrdUvarint64 preserves order: of two values a < b encoded one after
\* the other, the bytes of a are less than the bytes of b in bytes.Compare.
OrdOrderPreserved ==
    (pc = "encoded" /\ items = <<OrdUvarint64, OrdUvarint64>> /\ EncodedFresh)
        => LET n1 == ordUvarint64Size(encoded[1]) IN
           ULess(encoded[1], encoded[2])
               => BytesLess(SubSeq(out, 1, n1), SubSeq(out, n1 + 1, Len(out)))

\* 2^56-1 and 2^56: eight bytes against nine, across the escape threshold
OrdOrderPreservedWitness ==
    /\ pc = "encoded" /\ items = <<OrdUvarint64, OrdUvarint64>> /\ EncodedFresh
    /\ encoded = <<0..55, {56}>> /\ Len(out) = 17

\* C3 as stated: Size() and the length of the encoding follow the size table,
\* and the nBytes that Encode computes on its non-escape path equals Size()
\* for every x, x = 0 included.
OrdSizeTableAndNBytes ==
    (pc = "encoded" /\ items = <<OrdUvarint64>> /\ EncodedFresh)
        => LET x == encoded[1] IN
           /\ ordUvarint64Size(x) = TableSize(x)
           /\ Len(out) = TableSize(x)
           /\ Len64(x) <= EscapeBits => ordNBytes(x) = ordUvarint64Size(x)

\* C3 amended: Size() and the length of the encoding follow the size table
\* for every x; nBytes equals Size() for every x in [1, 2^56-1]; for x = 0
\* Encode computes nBytes = 0 while Size() is 1 and the encoding is the one
\* byte 0x00.
OrdSizeTable ==
    (pc = "encoded" /\ items = <<OrdUvarint64>> /\ EncodedFresh)
        => LET x == encoded[1] IN
           /\ ordUvarint64Size(x) = TableSize(x)
           /\ Len(out) = TableSize(x)
           /\ (x # {} /\ Len64(x) <= EscapeBits) => ordNBytes(x) = ordUvarint64Size(x)
           /\ x = {} => (ordNBytes(x) = 0 /\ out = <<0>>)

\* x = 0 encoded
OrdSizeTableWitness ==
    /\ pc = "encoded" /\ items = <<OrdUvarint64>> /\ EncodedFresh
    /\ encoded = <<{}>> /\ Len(out) = 1

\* C4: the Encoding of the package documentation round-trips: Encode does
\* not panic, and Decode of its whole output returns nil and leaves the three
\* cells equal to the values encoded.
SequenceRoundTrip ==
    (items = DocExample /\ encoded # <<>>
        /\ (pc = "panic" \/ (pc = "returned" /\ given = out)))
        => (pc = "returned" /\ err = NoErr /\ cells = encoded)

\* C5: truncation is detected by OrdUvarint64: Decode of a proper prefix of
\* an encoding returns io.ErrUnexpectedEOF and leaves the cell alone.
OrdTruncationDetected ==
    (pc = "returned" /\ items = <<OrdUvarint64>> /\ EncodedFresh
        /\ Len(given) < Len(out) /\ given = SubSeq(out, 1, Len(given)))
        => (err = ErrUnexpectedEOF /\ cells = before)

\* a nine-byte encoding cut to eight bytes
OrdTruncationDetectedWitness ==
    /\ pc = "returned" /\ items = <<OrdUvarint64>> /\ EncodedFresh
    /\ Len(out) = 9 /\ given = SubSeq(out, 1, 8) /\ err = ErrUnexpectedEOF

\* C6: Decode short-circuits: when it returns an error, the error is that of
\* the last Item.Decode call, made on item k; the calls on items 1..k-1
\* succeeded and their cells hold what those calls decoded; no call was made
\* on a later item and the later cells hold what they held before.
DecodeShortCircuits ==
    (pc = "returned" /\ err # NoErr)
        => /\ Len(calls) = k
           /\ calls[k].err = err
           /\ \A j \in 1..(k - 1) : calls[j].err = NoErr /\ cells[j] = calls[j].v
           /\ \A j \in (k + 1)..Len(items) : cells[j] = before[j]

\* the second of three items fails after the first cell was changed
DecodeShortCircuitsWitness ==
    /\ pc = "returned" /\ err # NoErr
    /\ Len(items) = 3 /\ k = 2
    /\ cells[1] # before[1] /\ cells[3] = before[3]

\* C7: Decode never reads past the buffer end: the offset i is at most
\* len(buf) whenever buf[i:] is taken, and Decode does not panic.
DecodeStaysInBuffer ==
    /\ pc = "decoding" => i <= Len(dbuf)
    /\ ~(pc = "panic" /\ k > 0)

\* C8: length-delimited layout: Encode of a LengthDelimBytes or
\* LengthDelimString into a zeroed buffer of Size() bytes does not panic and
\* leaves the uvarint of len(v) followed by the bytes of v.
LengthDelimLayout ==
    (Len(items) = 1 /\ items[1].kind \in {"LengthDelimBytes", "LengthDelimString"}
        /\ EncodedFresh /\ k = 0 /\ pc \in {"encoded", "panic"})
        => LET n == NatBits(Len(encoded[1])) IN
           /\ pc = "encoded"
           /\ out = PutUvarint(Zeros(uvarintSize(n)), n).buf \o encoded[1]

\* C9: Size after decode equals bytes consumed: every successful Item.Decode
\* of a variable-length item advances Decode's offset by the number of bytes
\* that were parsed as the item.
SizeEqualsConsumed ==
    [][(/\ pc = "decoding"
        /\ Len(calls') = Len(calls) + 1
        /\ calls'[Len(calls')].err = NoErr
        /\ items[k].kind \in VariableLength)
          => i' - i = Parsed(items[k], SliceFrom(dbuf, i))]_vars

\* C10: Item.Encode does not read the destination buffer: what a
\* value-carrying item leaves in the buffer is what it leaves in a zeroed one.
EncodeIgnoresBuffer ==
    (pc = "encoded" /\ Len(items) = 1 /\ items[1].kind # "Padding")
        => out = ItemEncode(items[1], encoded[1], Zeros(Len(out))).buf

====
